---- MODULE Spec2Model ----
(***************************************************************************)
(* Verification model of the page-load benchmark scripts.                  *)
(*                                                                         *)
(* The repository holds four variants of the same measurement pipeline:    *)
(*   "part_000"   src/unnamed/part_000  (JSON export, pages.json)          *)
(*   "part_001"   src/unnamed/part_001  (CSV export, datasets directory)   *)
(*   "combined"   src/index.js:1-398    (combined averages CSV)            *)
(*   "individual" src/index.js:399-831  (individual tries CSV)             *)
(*                                                                         *)
(* Spec      : the Batch Driver of the four variants, one action per step  *)
(*             of the run; a page visit is summarised by its outcome.      *)
(* SpecVisit : one page visit of getPageMetrics with its asynchronous      *)
(*             'response' handlers (the Byte Accountant).                  *)
(* SpecAverage : calculateAverage applied to drawn lists of trial results. *)
(* SpecLink  : findHomepageLinkOnce applied to drawn pages of a elements.  *)
(* SpecFair  : Spec with weak fairness of the run's steps.                 *)
(* SpecHar   : the network capture file paths of the trials of a run.      *)
(*                                                                         *)
(* JavaScript values that may be a number or a string are modelled as      *)
(* tagged records; a number is held in hundredths so that toFixed(2) is an *)
(* operation on integers.                                                  *)
(***************************************************************************)
EXTENDS Integers, Sequences, FiniteSets, TLC

(* ------------------------------ bounds --------------------------------- *)
\* longest list of targets in the input specification
MaxTargets == 2
\* most trials of one run that the environment lets fail
MaxFailures == 1
\* most responses the network delivers during one visit
MaxResponses == 3
MaxTrials == 3
MaxAnchors == 2

(* --------------------------- program constants ------------------------- *)
NUM_TRIES_INITIAL_LOAD == 3
NUM_TRIES_HOMEPAGE_NAVIGATION == 3

(* ------------------------------ values --------------------------------- *)
\* a JavaScript number; n is the value in hundredths
Hundredths(h) == [tag |-> "num", n |-> h, s |-> ""]
Num(k) == Hundredths(100 * k)
Str(t) == [tag |-> "str", n |-> 0, s |-> t]
Bool(b) == [tag |-> "bool", n |-> IF b THEN 1 ELSE 0, s |-> ""]
Undefined == [tag |-> "undef", n |-> 0, s |-> ""]
NaN == [tag |-> "nan", n |-> 0, s |-> ""]
NA == Str("N/A")
DNF == Str("DNF")

IsNumber(v) == v.tag = "num"
IsSentinel(v) == v = NA \/ v = DNF

\* m[metricName] of a JavaScript object: undefined when the property is missing
Field(m, name) == IF name \in DOMAIN m THEN m[name] ELSE Undefined

\* parseFloat((x / q).toFixed(2)) for a number x >= 0 of h hundredths and an
\* integer q > 0: toFixed picks the nearest hundredth, the larger one on a tie
ToFixed2(h, q) == Hundredths((2 * h + q) \div (2 * q))

\* the string "<origin of site i><path>"; the sentinels are strings of no site
UrlStr(i, path) == [tag |-> "str", n |-> i, s |-> path]

(* ------------------------------ inputs --------------------------------- *)
\* what the input file holds: nothing, text that is no JSON, the JSON null,
\* a JSON value without a length (an object or a number), a JSON array
InputKinds == {"missing", "unparsable", "null", "object", "list"}

\* no anchor qualifies on the page, or the first qualifying anchor
Anchors == {"N/A", "/about"}

\* a target: whether the string parses as a URL, and what its page links to
Targets == {[valid |-> TRUE, anchor |-> a] : a \in Anchors}
             \cup {[valid |-> FALSE, anchor |-> "N/A"]}

RECURSIVE SeqsUpTo(_, _)
SeqsUpTo(S, n) ==
  IF n = 0 THEN {<<>>}
  ELSE LET shorter == SeqsUpTo(S, n - 1)
       IN shorter \cup {Append(q, x) : q \in shorter, x \in S}

Inputs == {[kind |-> k, targets |-> <<>>] : k \in InputKinds \ {"list"}}
            \cup {[kind |-> "list", targets |-> q] : q \in SeqsUpTo(Targets, MaxTargets)}

\* the measurements a visit reports (time, DOM nodes), which no step of the
\* driver branches on
Measures == {1}

\* the byte counters of a visit as the driver sees them
Counted(m) == [total |-> m, same |-> m, cross |-> 0, resources |-> 1]

(* --------------------------- trial results ----------------------------- *)
\* the object getPageMetrics returns; outcome is how the try block ended:
\* "ok", "timeout" (a TimeoutError), "error" (any other error), "noTiming"
\* (performance.getEntriesByType('navigation')[0] is undefined, which the
\* part variants turn into a TypeError and the index variants into 'N/A'),
\* "setup" (newPage failed inside the try of an index variant)
getPageMetrics000(outcome, c, m, actualPage, otherPage) ==
  CASE outcome = "ok" ->
         [pageLoadTime_ms |-> Hundredths(m),
          domContentLoadedTime_ms |-> Hundredths(m),
          totalTransferred_bytes |-> Num(c.total),
          totalSameOriginTransferred_bytes |-> Num(c.same),
          totalCrossOriginTransferred_bytes |-> Num(c.cross),
          totalTransferredResources |-> Num(c.resources),
          domElementCount |-> Num(m),
          actualPage |-> actualPage,
          otherPage |-> otherPage]
    [] outcome = "timeout" ->
         [pageLoadTime_ms |-> DNF,
          domContentLoadedTime_ms |-> DNF,
          totalTransferred_bytes |-> DNF,
          totalSameOriginTransferred_bytes |-> DNF,
          totalCrossOriginTransferred_bytes |-> DNF,
          totalTransferredResources |-> DNF,
          domElementCount |-> DNF,
          actualPage |-> DNF,
          otherPage |-> DNF]
    [] OTHER ->
         [pageLoadTime_ms |-> NA,
          domContentLoadedTime_ms |-> NA,
          totalTransferred_bytes |-> NA,
          totalSameOriginTransferred_bytes |-> NA,
          totalCrossOriginTransferred_bytes |-> NA,
          totalTransferredResources |-> NA,
          domElementCount |-> NA,
          actualPage |-> NA,
          otherPage |-> NA]

getPageMetrics001(outcome, c, m, actualPage, otherPage) ==
  CASE outcome = "ok" -> getPageMetrics000("ok", c, m, actualPage, otherPage)
    [] outcome = "timeout" ->
         [pageLoadTime_ms |-> DNF,
          domContentLoadedTime_ms |-> DNF,
          totalTransferred_bytes |-> Num(c.total),
          totalSameOriginTransferred_bytes |-> Num(c.same),
          totalCrossOriginTransferred_bytes |-> Num(c.cross),
          totalTransferredResources |-> Num(c.resources),
          domElementCount |-> DNF,
          actualPage |-> DNF,
          otherPage |-> DNF]
    [] OTHER -> getPageMetrics000("error", c, m, actualPage, otherPage)

\* getInitialPageLoadMetrics on success; the catch of main pushes {error}
InitialLoadTry(outcome, m) ==
  IF outcome \in {"ok", "noTiming"}
  THEN [domContentLoadedTime |-> Hundredths(m),
        loadTime |-> Hundredths(m),
        pageLoadApiTime |-> IF outcome = "ok" THEN Hundredths(m) ELSE NA,
        domContentLoadedApiTime |-> IF outcome = "ok" THEN Hundredths(m) ELSE NA,
        totalTransferredBytes |-> Num(m),
        totalTransferredMB |-> ToFixed2(100 * m, 1024 * 1024),
        domElementCount |-> Num(m)]
  ELSE [error |-> Str("message")]

\* measureHomepageNavigation, which catches its own navigation failure;
\* a failed newPage is caught by main
HomepageNavigationTry(outcome, m) ==
  CASE outcome = "ok" ->
         [homepageLinkFound |-> Bool(TRUE), homepageLinkClickTime |-> Hundredths(m)]
    [] outcome = "setup" ->
         [error |-> Str("message"), homepageLinkFound |-> Bool(FALSE),
          homepageLinkClickTime |-> NA]
    [] OTHER ->
         [homepageLinkFound |-> Bool(FALSE), homepageLinkClickTime |-> NA]

\* getPageLoadMetrics on success; the catch of main sets every field to status
IndividualTry(outcome, m) ==
  IF outcome \in {"ok", "noTiming"}
  THEN [domContentLoadedTime_ms |-> Hundredths(m),
        loadTime_ms |-> Hundredths(m),
        pageLoadApiTime_ms |-> IF outcome = "ok" THEN Hundredths(m) ELSE NA,
        domContentLoadedApiTime_ms |-> IF outcome = "ok" THEN Hundredths(m) ELSE NA,
        pageSize_Bytes |-> Num(m),
        pageSize_MB |-> ToFixed2(100 * m, 1024 * 1024),
        domElementCount |-> Num(m)]
  ELSE LET status == IF outcome = "timeout" THEN DNF ELSE NA
       IN [error |-> Str("message"),
           domContentLoadedTime_ms |-> status,
           loadTime_ms |-> status,
           pageLoadApiTime_ms |-> status,
           domContentLoadedApiTime_ms |-> status,
           pageSize_Bytes |-> status,
           pageSize_MB |-> status,
           domElementCount |-> status]

\* the Trial Result a variant records for a visit that ended with outcome
TrialResult(v, kind, outcome, site, path, anchor, m) ==
  CASE v = "part_000" ->
         getPageMetrics000(outcome, Counted(m), m, UrlStr(site, path), Str(anchor))
    [] v = "part_001" ->
         getPageMetrics001(outcome, Counted(m), m, UrlStr(site, path), Str(anchor))
    [] v = "combined" /\ kind = "primary" -> InitialLoadTry(outcome, m)
    [] v = "combined" /\ kind = "secondary" -> HomepageNavigationTry(outcome, m)
    [] OTHER -> IndividualTry(outcome, m)

RECURSIVE SumNumbers(_, _)
SumNumbers(metricsArray, metricName) ==
  IF metricsArray = <<>> THEN 0
  ELSE LET val == Field(Head(metricsArray), metricName)
       IN (IF IsNumber(val) THEN val.n ELSE 0)
            + SumNumbers(Tail(metricsArray), metricName)

\* the mutation of calculateAverage that divides by the number of trials
calculateAverageOverTries(metricsArray, metricName) ==
  IF Len(metricsArray) = 0 THEN NA
  ELSE ToFixed2(SumNumbers(metricsArray, metricName), Len(metricsArray))

calculateAverage(metricsArray, metricName) ==
  IF metricName = "homepageLinkFound"
  THEN Bool(\E i \in 1 .. Len(metricsArray) :
              Field(metricsArray[i], metricName) = Bool(TRUE))
  ELSE LET values == {i \in 1 .. Len(metricsArray) :
                         IsNumber(Field(metricsArray[i], metricName))}
       IN IF Cardinality(values) = 0 THEN NA
          ELSE ToFixed2(SumNumbers(metricsArray, metricName), Cardinality(values))

Variants == {"part_000", "part_001", "combined", "individual"}
PartVariants == {"part_000", "part_001"}
IndexVariants == {"combined", "individual"}

VARIABLES
  variant,       \* which script runs
  input,         \* the input specification on disk: [kind, targets]
  pc,            \* position of the main flow
  ti,            \* index of the target being processed (loop variable)
  page,          \* the page of the trial in progress: "none" or "open"
  metrics,       \* indexPageMetricTimes / initialLoadMetricsOverTries
  otherMetrics,  \* otherPageMetricTimes / homepageNavigationMetricsOverTries
  linkResult,    \* identifiedHomepageHref, homepageLinkFoundOverall
  pageDatas,     \* the output collection of Site Summaries (part variants)
  rows,          \* data rows appended to the CSV file (index variants)
  written,       \* the output file exists
  browser,       \* "none", "launched", "closed"
  exitCode,      \* -1 while running, then the process exit code
  openContexts,  \* pages/contexts created and not closed
  trialLog,      \* the "Getting page metrics" / "Starting Try" log lines
  lastTry,       \* how the latest trial ended and the result recorded for it
  failures,      \* failed trials so far (environment budget)
  \* ---- one visit of getPageMetrics (SpecVisit) ----
  vpc,           \* main flow of the visit: "idle", "goto", "returned"
  pageUrl,       \* page.url()
  handlers,      \* the 'response' handlers started so far, in event order
  acc,           \* the counters and the redirected flag of the closure
  returned,      \* the object getPageMetrics returned
  \* ---- the functions applied to drawn inputs (SpecAverage, SpecLink) ----
  trials,        \* the metricsArray handed to calculateAverage
  average,       \* what calculateAverage returned for AvgField
  anchorsOnPage, \* the a elements of the page, in document order
  pageOrigin,    \* the origin of page.url(), relative to that of initialUrl
  found,         \* what findHomepageLinkOnce returned
  \* ---- the network capture files of a run (SpecHar) ----
  harSites,      \* the targets: hostname, and whether a secondary link is detected
  harPos,        \* the trial to run next: [site, k], k-th of the six trial names
  harTrials      \* the capture file path of each trial run so far, in order

driverVars == <<variant, input, pc, ti, page, metrics, otherMetrics, linkResult,
                pageDatas, rows, written, browser, exitCode, openContexts,
                trialLog, lastTry, failures>>

visitVars == <<vpc, pageUrl, handlers, acc, returned>>

fnVars == <<trials, average, anchorsOnPage, pageOrigin, found, harSites, harPos, harTrials>>

vars == <<driverVars, visitVars, fnVars>>

(* ------------------------- Batch Driver: helpers ------------------------ *)
Outcomes == {"ok", "timeout", "error", "noTiming"}

\* the list the site loop iterates: a value without a length gives no pass
Sites == IF input.kind = "list" THEN input.targets ELSE <<>>

Target == Sites[ti]

\* the process ends on an uncaught error or process.exit(1)
Crash ==
  /\ exitCode' = 1
  /\ pc' = "exit"

\* 'iter-' + i, 'other-iter-' + i
Label(kind, i) == <<ti, IF kind = "primary" THEN "iter" ELSE "other-iter", i>>

Tries(kind) == IF kind = "primary" THEN metrics ELSE otherMetrics

NumTries(kind) ==
  IF kind = "primary" THEN NUM_TRIES_INITIAL_LOAD ELSE NUM_TRIES_HOMEPAGE_NAVIGATION

\* the path the trial navigates to: the site itself, or the detected link
TrialPath(kind) ==
  IF kind = "primary" THEN "/"
  ELSE IF variant \in PartVariants THEN metrics[3].otherPage.s
  ELSE linkResult.href.s

\* a failure of the environment is possible while the budget lasts
MayFail == failures < MaxFailures

\* the CSV row of one try of the individual-tries variant
DataRow(kind, i, m) ==
  [url |-> ti, try |-> i, type |-> kind,
   found |-> linkResult.found, href |-> linkResult.href,
   domContentLoadedTime_ms |-> Field(m, "domContentLoadedTime_ms"),
   loadTime_ms |-> Field(m, "loadTime_ms"),
   pageLoadApiTime_ms |-> Field(m, "pageLoadApiTime_ms"),
   domContentLoadedApiTime_ms |-> Field(m, "domContentLoadedApiTime_ms"),
   pageSize_Bytes |-> Field(m, "pageSize_Bytes"),
   pageSize_MB |-> Field(m, "pageSize_MB"),
   domElementCount |-> Field(m, "domElementCount")]

\* push of a trial's result, with the row the individual-tries variant appends
Record(kind, outcome, result) ==
  /\ lastTry' = [outcome |-> outcome, kind |-> kind, result |-> result]
  /\ IF kind = "primary"
     THEN metrics' = Append(metrics, result) /\ UNCHANGED otherMetrics
     ELSE otherMetrics' = Append(otherMetrics, result) /\ UNCHANGED metrics
  /\ rows' = IF variant = "individual"
             THEN Append(rows, DataRow(kind, Len(Tries(kind)) + 1, result))
             ELSE rows

(* ------------------------- Batch Driver: actions ------------------------ *)
\* chromium.launch; the index variants then write the CSV header
Launch ==
  /\ pc = "launch"
  /\ \/ /\ browser' = "launched"
        /\ written' = (variant \in IndexVariants)
        /\ pc' = IF variant \in PartVariants THEN "load" ELSE "loop"
        /\ UNCHANGED exitCode
     \/ /\ Crash
        /\ UNCHANGED <<browser, written>>
  /\ UNCHANGED <<variant, input, ti, page, metrics, otherMetrics, linkResult,
                 pageDatas, rows, openContexts, trialLog, failures, lastTry>>
  /\ UNCHANGED <<visitVars, fnVars>>

\* reading and parsing the input specification
LoadInput ==
  /\ pc = "load"
  /\ IF variant \in IndexVariants
     THEN IF input.kind = "list"
          THEN pc' = "launch" /\ UNCHANGED exitCode
          ELSE Crash
     ELSE IF input.kind \in {"missing", "unparsable", "null"}
          THEN Crash
          ELSE pc' = "loop" /\ UNCHANGED exitCode
  /\ UNCHANGED <<variant, input, ti, page, metrics, otherMetrics, linkResult,
                 pageDatas, rows, written, browser, openContexts, trialLog, failures,
                 lastTry>>
  /\ UNCHANGED <<visitVars, fnVars>>

\* head of the site loop
NextSite ==
  /\ pc = "loop"
  /\ IF ti <= Len(Sites)
     THEN /\ metrics' = <<>>
          /\ otherMetrics' = <<>>
          /\ linkResult' = [href |-> NA, found |-> FALSE]
          /\ pc' = IF variant = "individual" THEN "link" ELSE "primary"
     ELSE /\ pc' = IF variant \in PartVariants THEN "write" ELSE "close"
          /\ UNCHANGED <<metrics, otherMetrics, linkResult>>
  /\ UNCHANGED <<variant, input, ti, page, pageDatas, rows, written, browser,
                 exitCode, openContexts, trialLog, failures, lastTry>>
  /\ UNCHANGED <<visitVars, fnVars>>

\* start of one trial: the log line, then the creation of the context/page
TrialBegin(kind) ==
  /\ pc = kind
  /\ page = "none"
  /\ Len(Tries(kind)) < NumTries(kind)
  /\ kind = "secondary" /\ variant \in IndexVariants => linkResult.found
  /\ trialLog' = Append(trialLog, Label(kind, Len(Tries(kind)) + 1))
  /\ IF variant \in PartVariants
     THEN \/ /\ kind = "primary" => Target.valid
             /\ page' = "open"
             /\ openContexts' = openContexts + 1
             /\ UNCHANGED <<pc, exitCode, failures>>
          \/ /\ (kind = "primary" /\ ~Target.valid) \/ MayFail
             /\ Crash
             /\ UNCHANGED <<page, openContexts, failures>>
     ELSE \/ /\ page' = "open"
             /\ openContexts' = openContexts + 1
             /\ UNCHANGED <<pc, exitCode, failures, metrics, otherMetrics, rows,
                            lastTry>>
          \/ /\ MayFail
             /\ failures' = failures + 1
             /\ Record(kind, "setup",
                       TrialResult(variant, kind, "setup", ti, TrialPath(kind), "N/A", 1))
             /\ UNCHANGED <<pc, exitCode, page, openContexts>>
  /\ variant \in PartVariants => UNCHANGED <<metrics, otherMetrics, rows, lastTry>>
  /\ UNCHANGED <<variant, input, ti, linkResult, pageDatas, written, browser>>
  /\ UNCHANGED <<visitVars, fnVars>>

\* end of one trial: the visit ends with an outcome, the result is recorded
TrialEnd(kind) ==
  /\ pc = kind
  /\ page = "open"
  /\ \E outcome \in Outcomes, m \in Measures :
       /\ variant = "combined" /\ kind = "secondary" => outcome # "noTiming"
       /\ outcome # "ok" =>
            \/ MayFail /\ failures' = failures + 1
            \/ /\ variant \in IndexVariants /\ kind = "primary" /\ ~Target.valid
               /\ outcome = "error"
               /\ UNCHANGED failures
       /\ outcome = "ok" =>
            /\ variant \in IndexVariants /\ kind = "primary" => Target.valid
            /\ UNCHANGED failures
       /\ Record(kind, outcome,
                 TrialResult(variant, kind, outcome, ti, TrialPath(kind), Target.anchor, m))
       /\ openContexts' =
            IF variant = "part_000" /\ outcome \in {"timeout", "error"}
            THEN openContexts
            ELSE openContexts - 1
  /\ page' = "none"
  /\ UNCHANGED <<variant, input, pc, ti, linkResult, pageDatas, written, browser,
                 exitCode, trialLog>>
  /\ UNCHANGED <<visitVars, fnVars>>

\* the same test made on the first primary trial instead of the third
RunsSecondaryOnFirst(indexPageMetricTimes) ==
  /\ indexPageMetricTimes[1].otherPage # NA
  /\ indexPageMetricTimes[1].otherPage # DNF

\* the test that guards the loop of secondary trials (part variants)
RunsSecondary(indexPageMetricTimes) ==
  /\ indexPageMetricTimes[3].otherPage # NA
  /\ indexPageMetricTimes[3].otherPage # DNF

\* after the loop of primary trials
PrimaryDone ==
  /\ pc = "primary"
  /\ page = "none"
  /\ Len(metrics) = NUM_TRIES_INITIAL_LOAD
  /\ pc' = CASE variant \in PartVariants ->
                  IF RunsSecondary(metrics) THEN "secondary" ELSE "assemble"
             [] variant = "combined" -> "link"
             [] OTHER -> "secondary"
  /\ UNCHANGED <<variant, input, ti, page, metrics, otherMetrics, linkResult,
                 pageDatas, rows, written, browser, exitCode, openContexts, trialLog,
                 failures, lastTry>>
  /\ UNCHANGED <<visitVars, fnVars>>

\* homepage link identification on a temporary page (index variants)
IdentifyLink ==
  /\ pc = "link"
  /\ \/ /\ Target.valid
        /\ linkResult' = IF Target.anchor = "N/A"
                         THEN [href |-> NA, found |-> FALSE]
                         ELSE [href |-> UrlStr(ti, Target.anchor), found |-> TRUE]
        /\ UNCHANGED failures
     \/ /\ ~Target.valid \/ MayFail
        /\ failures' = IF Target.valid THEN failures + 1 ELSE failures
        /\ UNCHANGED linkResult
  /\ pc' = IF variant = "combined" THEN "secondary" ELSE "primary"
  /\ UNCHANGED <<variant, input, ti, page, metrics, otherMetrics, pageDatas, rows,
                 written, browser, exitCode, openContexts, trialLog, lastTry>>
  /\ UNCHANGED <<visitVars, fnVars>>

\* no link was identified: placeholders instead of secondary trials
SkipSecondary ==
  /\ pc = "secondary"
  /\ variant \in IndexVariants
  /\ ~linkResult.found
  /\ IF variant = "combined"
     THEN /\ otherMetrics' =
               [i \in 1 .. NUM_TRIES_HOMEPAGE_NAVIGATION |->
                  [homepageLinkFound |-> Bool(FALSE), homepageLinkClickTime |-> NA]]
          /\ UNCHANGED rows
     ELSE /\ rows' = rows \o
               [i \in 1 .. NUM_TRIES_HOMEPAGE_NAVIGATION |->
                  DataRow("secondary", i, [pageSize_Bytes |-> NA] @@
                    [f \in {"domContentLoadedTime_ms", "loadTime_ms",
                            "pageLoadApiTime_ms", "domContentLoadedApiTime_ms",
                            "pageSize_MB", "domElementCount"} |-> NA])]
          /\ UNCHANGED otherMetrics
  /\ pc' = "row"
  /\ UNCHANGED <<variant, input, ti, page, metrics, linkResult, pageDatas, written,
                 browser, exitCode, openContexts, trialLog, failures, lastTry>>
  /\ UNCHANGED <<visitVars, fnVars>>

\* after the loop of secondary trials
SecondaryDone ==
  /\ pc = "secondary"
  /\ page = "none"
  /\ Len(otherMetrics) = NUM_TRIES_HOMEPAGE_NAVIGATION
  /\ pc' = IF variant \in PartVariants THEN "assemble" ELSE "row"
  /\ UNCHANGED <<variant, input, ti, page, metrics, otherMetrics, linkResult,
                 pageDatas, rows, written, browser, exitCode, openContexts, trialLog,
                 failures, lastTry>>
  /\ UNCHANGED <<visitVars, fnVars>>

\* the Site Summary of the part variants
Assemble ==
  /\ pc = "assemble"
  /\ pageDatas' = Append(pageDatas,
       [siteUrl |-> ti,
        actualSiteUrl |-> metrics[1].actualPage,
        metrics |-> metrics,
        otherMetrics |-> otherMetrics])
  /\ ti' = ti + 1
  /\ pc' = "loop"
  /\ UNCHANGED <<variant, input, page, metrics, otherMetrics, linkResult, rows,
                 written, browser, exitCode, openContexts, trialLog, failures,
                 lastTry>>
  /\ UNCHANGED <<visitVars, fnVars>>

\* end of a pass of the site loop of the index variants; the combined
\* variant appends the consolidated row of averages
EndSite ==
  /\ pc = "row"
  /\ rows' =
       IF variant = "combined"
       THEN Append(rows,
              [url |-> ti,
               domContentLoadedTime |-> calculateAverage(metrics, "domContentLoadedTime"),
               loadTime |-> calculateAverage(metrics, "loadTime"),
               pageLoadApiTime |-> calculateAverage(metrics, "pageLoadApiTime"),
               domContentLoadedApiTime |->
                 calculateAverage(metrics, "domContentLoadedApiTime"),
               totalTransferredBytes |-> calculateAverage(metrics, "totalTransferredBytes"),
               totalTransferredMB |-> calculateAverage(metrics, "totalTransferredMB"),
               domElementCount |-> calculateAverage(metrics, "domElementCount"),
               homepageLinkFound |-> Bool(linkResult.found),
               homepageLinkHref |-> linkResult.href,
               homepageLinkNavigationTime |->
                 calculateAverage(otherMetrics, "homepageLinkClickTime")])
       ELSE rows
  /\ ti' = ti + 1
  /\ pc' = "loop"
  /\ UNCHANGED <<variant, input, page, metrics, otherMetrics, linkResult, pageDatas,
                 written, browser, exitCode, openContexts, trialLog, failures,
                 lastTry>>
  /\ UNCHANGED <<visitVars, fnVars>>

\* fs.writeFileSync of the collection (part variants)
WriteOutput ==
  /\ pc = "write"
  /\ written' = TRUE
  /\ pc' = "close"
  /\ UNCHANGED <<variant, input, ti, page, metrics, otherMetrics, linkResult,
                 pageDatas, rows, browser, exitCode, openContexts, trialLog,
                 failures, lastTry>>
  /\ UNCHANGED <<visitVars, fnVars>>

\* browser.close() and the normal end of the process
CloseBrowser ==
  /\ pc = "close"
  /\ browser' = "closed"
  /\ exitCode' = 0
  /\ pc' = "exit"
  /\ UNCHANGED <<variant, input, ti, page, metrics, otherMetrics, linkResult,
                 pageDatas, rows, written, openContexts, trialLog, failures, lastTry>>
  /\ UNCHANGED <<visitVars, fnVars>>

(* ------------------------ one visit: the inputs ------------------------- *)
\* the URL getPageMetrics is called with
ReqHost == "a"
ReqPath == "/"

Hosts == {"a", "b"}
Paths == {"/", "/x"}

\* page.url() before the navigation commits
Blank == [host |-> "about:blank", path |-> ""]
PageUrls == [host : Hosts, path : Paths] \ {[host |-> "a", path |-> "/x"]}


\* headers['content-length'] is undefined
NoHeader == -1
\* response.body() rejects: "Response body is unavailable for redirect
\* responses", or any other error
RedirectBodyError == -1
OtherBodyError == -2

NoLocation == [host |-> "", path |-> ""]

\* the responses of the environment. A response with a content-length is
\* never asked for its body; the body of a redirect response is unavailable;
\* the Location of a redirect is an absolute URL
Responses ==
  {[status |-> 200, host |-> "a", cl |-> 1000, body |-> 0, loc |-> NoLocation],
   [status |-> 200, host |-> "b", cl |-> 2000, body |-> 0, loc |-> NoLocation],
   [status |-> 200, host |-> "a", cl |-> NoHeader, body |-> 1000, loc |-> NoLocation],
   [status |-> 200, host |-> "b", cl |-> NoHeader, body |-> OtherBodyError,
    loc |-> NoLocation],
   [status |-> 404, host |-> "a", cl |-> 1000, body |-> 0, loc |-> NoLocation],
   [status |-> 300, host |-> "a", cl |-> NoHeader, body |-> RedirectBodyError,
    loc |-> [host |-> "b", path |-> "/"]]}
  \cup {[status |-> 301, host |-> "a", cl |-> n, body |-> RedirectBodyError, loc |-> l] :
          n \in {NoHeader, 1000},
          l \in {[host |-> "b", path |-> "/"], [host |-> "b", path |-> "/x"],
                 [host |-> "a", path |-> "/x"]}}

\* the closure variables of getPageMetrics; log holds the handlers that
\* printed "Redirects found"
NewCounters ==
  [totalTransferredBytes |-> 0,
   totalSameOriginTransferredBytes |-> 0,
   totalCrossOriginTransferredBytes |-> 0,
   totalTransferredResources |-> 0,
   redirected |-> FALSE,
   log |-> <<>>]

(* --------------------- one visit: the response handler ------------------ *)
\* the mutation of the counting branch that puts every response in the
\* same-origin bucket
AddSameOrigin(a, r, n) ==
  [a EXCEPT !.totalTransferredBytes = @ + n,
            !.totalSameOriginTransferredBytes = @ + n,
            !.totalTransferredResources = @ + 1]

\* totalTransferredBytes += n, the bucket of the response's hostname += n,
\* totalTransferredResources++
Add(a, r, n) ==
  IF r.host = ReqHost
  THEN [a EXCEPT !.totalTransferredBytes = @ + n,
                 !.totalSameOriginTransferredBytes = @ + n,
                 !.totalTransferredResources = @ + 1]
  ELSE [a EXCEPT !.totalTransferredBytes = @ + n,
                 !.totalCrossOriginTransferredBytes = @ + n,
                 !.totalTransferredResources = @ + 1]

\* the mutation of the reset that leaves the total as it is
ResetBuckets(a, k) ==
  [a EXCEPT !.totalSameOriginTransferredBytes = 0,
            !.totalCrossOriginTransferredBytes = 0,
            !.totalTransferredResources = 0,
            !.redirected = (variant = "part_001"),
            !.log = Append(@, k)]

\* the four counters set to 0 by handler k; part_001 also sets the flag
Reset(a, k) ==
  [a EXCEPT !.totalTransferredBytes = 0,
            !.totalSameOriginTransferredBytes = 0,
            !.totalCrossOriginTransferredBytes = 0,
            !.totalTransferredResources = 0,
            !.redirected = (variant = "part_001"),
            !.log = Append(@, k)]

\* from the status filter to the end of the handler or to the await of body()
Count(a, r) ==
  IF r.status < 200 \/ r.status >= 400 THEN [acc |-> a, pc |-> "done"]
  ELSE IF r.cl # NoHeader THEN [acc |-> Add(a, r, r.cl), pc |-> "done"]
  ELSE [acc |-> a, pc |-> "body"]

\* the handler of part_001 from its start to its first suspension: the
\* redirect test awaits the Location header only while the page is blank
Start001(a, r, k) ==
  IF r.status >= 301 /\ r.status <= 399 /\ ~a.redirected
  THEN IF pageUrl = Blank THEN [acc |-> a, pc |-> "location1"]
       ELSE IF pageUrl.path = ReqPath /\ pageUrl.host # ReqHost
            THEN Count(Reset(a, k), r)
            ELSE Count(a, r)
  ELSE Count(a, r)

\* the handler of part_001 resumed with the Location header at hand
Resume001(a, r, k, at) ==
  CASE at = "location1" ->
         \* pathname test done with Location; hostname test reads page.url() anew
         IF r.loc.path # ReqPath THEN Count(a, r)
         ELSE IF pageUrl = Blank THEN [acc |-> a, pc |-> "location2"]
         ELSE IF pageUrl.host # ReqHost THEN Count(Reset(a, k), r)
         ELSE Count(a, r)
    [] at = "location2" ->
         \* hostname test done with Location; the log line reads page.url() anew
         IF r.loc.host = ReqHost THEN Count(a, r)
         ELSE IF pageUrl = Blank THEN [acc |-> a, pc |-> "location3"]
         ELSE Count(Reset(a, k), r)
    [] at = "location3" -> Count(Reset(a, k), r)
    [] OTHER ->
         \* at = "body": the buffer, or the catch that only warns
         IF r.body >= 0 THEN [acc |-> Add(a, r, r.body), pc |-> "done"]
         ELSE [acc |-> a, pc |-> "done"]

\* the handler of part_000 resumed from body(): the catch resets the
\* counters when the message is the one of a redirect response
Resume000(a, r, k) ==
  IF r.body >= 0 THEN [acc |-> Add(a, r, r.body), pc |-> "done"]
  ELSE IF r.body = RedirectBodyError THEN [acc |-> Reset(a, k), pc |-> "done"]
  ELSE [acc |-> a, pc |-> "done"]

Counters(a) ==
  [total |-> a.totalTransferredBytes,
   same |-> a.totalSameOriginTransferredBytes,
   cross |-> a.totalCrossOriginTransferredBytes,
   resources |-> a.totalTransferredResources]


\* no function has been applied
FnIdle ==
  /\ trials = <<>>
  /\ average = Undefined
  /\ anchorsOnPage = <<>>
  /\ pageOrigin = 1
  /\ found = <<>>
  /\ harSites = <<>>
  /\ harPos = [site |-> 1, k |-> 1]
  /\ harTrials = <<>>

Init ==
  /\ variant \in Variants
  /\ input \in Inputs
  /\ pc = IF variant \in PartVariants THEN "launch" ELSE "load"
  /\ ti = 1
  /\ page = "none"
  /\ metrics = <<>>
  /\ otherMetrics = <<>>
  /\ linkResult = [href |-> NA, found |-> FALSE]
  /\ pageDatas = <<>>
  /\ rows = <<>>
  /\ written = FALSE
  /\ browser = "none"
  /\ exitCode = -1
  /\ openContexts = 0
  /\ trialLog = <<>>
  /\ lastTry = [outcome |-> "none", kind |-> "none", result |-> <<>>]
  /\ failures = 0
  /\ vpc = "idle"
  /\ pageUrl = Blank
  /\ handlers = <<>>
  /\ acc = NewCounters
  /\ returned = <<>>
  /\ FnIdle

Next ==
  \/ Launch
  \/ LoadInput
  \/ NextSite
  \/ TrialBegin("primary")
  \/ TrialBegin("secondary")
  \/ TrialEnd("primary")
  \/ TrialEnd("secondary")
  \/ PrimaryDone
  \/ IdentifyLink
  \/ SkipSecondary
  \/ SecondaryDone
  \/ Assemble
  \/ EndSite
  \/ WriteOutput
  \/ CloseBrowser

Spec == Init /\ [][Next]_vars

\* the run under the scheduling of the event loop: a step that can be taken
\* (a continuation whose await has settled) is eventually taken
SpecFair == Init /\ [][Next]_vars /\ WF_vars(Next)

(* ------------------------ one visit: the actions ------------------------ *)
\* a 'response' event: the handler runs to its first await
OnResponse ==
  /\ vpc = "goto"
  /\ Len(handlers) < MaxResponses
  /\ \E r \in Responses :
       LET k == Len(handlers) + 1
           next == IF variant = "part_001" THEN Start001(acc, r, k) ELSE Count(acc, r)
       IN /\ handlers' = Append(handlers, [resp |-> r, pc |-> next.pc])
          /\ acc' = next.acc
  /\ UNCHANGED <<vpc, pageUrl, returned>>
  /\ UNCHANGED <<driverVars, fnVars>>

\* a suspended handler is resumed
Resume ==
  /\ vpc # "idle"
  /\ \E k \in 1 .. Len(handlers) :
       /\ handlers[k].pc # "done"
       /\ LET r == handlers[k].resp
              next == IF variant = "part_001"
                      THEN Resume001(acc, r, k, handlers[k].pc)
                      ELSE Resume000(acc, r, k)
          IN /\ handlers' = [handlers EXCEPT ![k].pc = next.pc]
             /\ acc' = next.acc
  /\ UNCHANGED <<vpc, pageUrl, returned>>
  /\ UNCHANGED <<driverVars, fnVars>>

\* the navigation commits: page.url() is the URL the server led to
Commit ==
  /\ vpc = "goto"
  /\ pageUrl = Blank
  /\ pageUrl' \in PageUrls
  /\ UNCHANGED <<vpc, handlers, acc, returned>>
  /\ UNCHANGED <<driverVars, fnVars>>

\* the try block ends and getPageMetrics returns its object
Return ==
  /\ vpc = "goto"
  /\ \E outcome \in {"ok", "timeout", "error"} :
       /\ outcome = "ok" => pageUrl # Blank
       /\ returned' =
            LET actualPage == UrlStr(IF pageUrl.host = ReqHost THEN 1 ELSE 2, pageUrl.path)
            IN IF variant = "part_001"
               THEN getPageMetrics001(outcome, Counters(acc), 1, actualPage, NA)
               ELSE getPageMetrics000(outcome, Counters(acc), 1, actualPage, NA)
  /\ vpc' = "returned"
  /\ UNCHANGED <<pageUrl, handlers, acc>>
  /\ UNCHANGED <<driverVars, fnVars>>

InitVisit ==
  /\ variant \in PartVariants
  /\ input = [kind |-> "list", targets |-> <<[valid |-> TRUE, anchor |-> "N/A"]>>]
  /\ pc = "primary"
  /\ ti = 1
  /\ page = "open"
  /\ metrics = <<>>
  /\ otherMetrics = <<>>
  /\ linkResult = [href |-> NA, found |-> FALSE]
  /\ pageDatas = <<>>
  /\ rows = <<>>
  /\ written = FALSE
  /\ browser = "launched"
  /\ exitCode = -1
  /\ openContexts = 1
  /\ trialLog = <<<<1, "iter", 1>>>>
  /\ lastTry = [outcome |-> "none", kind |-> "none", result |-> <<>>]
  /\ failures = 0
  /\ vpc = "goto"
  /\ pageUrl = Blank
  /\ handlers = <<>>
  /\ acc = NewCounters
  /\ returned = <<>>
  /\ FnIdle

NextVisit ==
  \/ OnResponse
  \/ Resume
  \/ Commit
  \/ Return

SpecVisit == InitVisit /\ [][NextVisit]_vars

(* ======================= claims on the Batch Driver ===================== *)
PrimaryAttempts(i) ==
  Cardinality({k \in 1 .. Len(trialLog) : trialLog[k][1] = i /\ trialLog[k][2] = "iter"})

SecondaryAttempts(i) ==
  Cardinality({k \in 1 .. Len(trialLog) :
                 trialLog[k][1] = i /\ trialLog[k][2] = "other-iter"})

\* the metric fields of the Trial Result a variant records
MetricNames ==
  CASE variant \in PartVariants ->
         {"pageLoadTime_ms", "domContentLoadedTime_ms", "totalTransferred_bytes",
          "totalSameOriginTransferred_bytes", "totalCrossOriginTransferred_bytes",
          "totalTransferredResources", "domElementCount", "actualPage", "otherPage"}
    [] variant = "combined" /\ lastTry.kind = "primary" ->
         {"domContentLoadedTime", "loadTime", "pageLoadApiTime",
          "domContentLoadedApiTime", "totalTransferredBytes", "totalTransferredMB",
          "domElementCount"}
    [] variant = "combined" /\ lastTry.kind # "primary" -> {"homepageLinkClickTime"}
    [] OTHER ->
         {"domContentLoadedTime_ms", "loadTime_ms", "pageLoadApiTime_ms",
          "domContentLoadedApiTime_ms", "pageSize_Bytes", "pageSize_MB",
          "domElementCount"}

\* the input specification can be read, parsed and iterated by the variant
InputLoads ==
  IF variant \in IndexVariants THEN input.kind = "list"
  ELSE input.kind \in {"object", "list"}

\* C1: for every target exactly 3 primary trials are attempted whatever the
\* outcome of each trial, and exactly 3 secondary trials when they run: once
\* the driver has left a target's loop of trials (or the run has ended), a
\* target that was tried at all was tried 3 times, and never more than 3.
C1_ExactlyThreeTrials ==
  \A i \in 1 .. Len(Sites) :
    /\ PrimaryAttempts(i) <= NUM_TRIES_INITIAL_LOAD
    /\ SecondaryAttempts(i) <= NUM_TRIES_HOMEPAGE_NAVIGATION
    /\ (PrimaryAttempts(i) > 0 /\ ~(ti = i /\ pc = "primary"))
         => PrimaryAttempts(i) = NUM_TRIES_INITIAL_LOAD
    /\ (SecondaryAttempts(i) > 0 /\ ~(ti = i /\ pc = "secondary"))
         => SecondaryAttempts(i) = NUM_TRIES_HOMEPAGE_NAVIGATION

\* C2: in the part variants secondary trials run for a target if and only if
\* the otherPage of its third primary trial is neither "N/A" nor "DNF",
\* whatever trials 1 and 2 found; otherwise no secondary trial is attempted.
C2_SecondaryIffFinalLink ==
  variant \in PartVariants =>
    /\ \A k \in 1 .. Len(pageDatas) :
         /\ Len(pageDatas[k].otherMetrics) > 0
              <=> ~IsSentinel(pageDatas[k].metrics[3].otherPage)
         /\ SecondaryAttempts(k) > 0
              <=> ~IsSentinel(pageDatas[k].metrics[3].otherPage)
    /\ \A i \in 1 .. Len(Sites) :
         (i = ti /\ SecondaryAttempts(i) > 0)
           => Len(metrics) = 3 /\ ~IsSentinel(metrics[3].otherPage)
    /\ pc = "assemble" =>
         (Len(otherMetrics) > 0 <=> ~IsSentinel(metrics[3].otherPage))

\* a summary whose first trial found a link, whose third trial failed, and
\* which has no secondary trial; and a summary with secondary trials
C2_Witness ==
  /\ variant \in PartVariants
  /\ \E k \in 1 .. Len(pageDatas) :
       /\ ~IsSentinel(pageDatas[k].metrics[1].otherPage)
       /\ IsSentinel(pageDatas[k].metrics[3].otherPage)
       /\ pageDatas[k].otherMetrics = <<>>
       /\ SecondaryAttempts(k) = 0
  /\ \E k \in 1 .. Len(pageDatas) : Len(pageDatas[k].otherMetrics) = 3

\* C3: a trial that ends in a TimeoutError records the DNF sentinel in every
\* field of its Trial Result, the byte and resource counters included.
C3_TimeoutAllDNF ==
  (variant # "combined" /\ lastTry.outcome = "timeout")
    => \A f \in MetricNames : Field(lastTry.result, f) = DNF

\* C4: a trial that ends in a failure that is not a timeout records the N/A
\* sentinel in every field of its Trial Result.
C4_ErrorAllNA ==
  lastTry.outcome \in {"error", "setup"}
    => \A f \in MetricNames : Field(lastTry.result, f) = NA

\* C5: a failure inside a single trial, its setup included, never aborts the
\* run: once the input is loaded and the browser launched, the run ends only
\* after every target was processed, with a zero exit.
C5_NeverAborts ==
  (pc = "exit" /\ InputLoads /\ browser # "none")
    => exitCode = 0 /\ ti = Len(Sites) + 1

\* C6: when the input specification is missing, not parsable or not a list
\* of targets, the run ends with a non-zero exit, no trial is executed and
\* no result row or summary is written.
C6_BadInputFatal ==
  input.kind # "list" =>
    /\ pc = "exit" => exitCode # 0
    /\ trialLog = <<>>
    /\ rows = <<>>
    /\ pageDatas = <<>>

(* ------------------------- the Byte Accountant -------------------------- *)
AllDone == \A k \in 1 .. Len(handlers) : handlers[k].pc = "done"

\* the response passes the status filter and its size could be determined
IsCounted(r) == r.status >= 200 /\ r.status < 400 /\ (r.cl # NoHeader \/ r.body >= 0)

\* the content-length when declared, else the size of the body
ByteCount(r) == IF r.cl # NoHeader THEN r.cl ELSE r.body

RECURSIVE SumFrom(_, _, _)
\* over the counted responses j .. Len(handlers) whose hostname is in hs:
\* their number when unit, else the sum of their byte counts
SumFrom(j, hs, unit) ==
  IF j > Len(handlers) THEN 0
  ELSE LET r == handlers[j].resp
       IN (IF IsCounted(r) /\ r.host \in hs THEN (IF unit THEN 1 ELSE ByteCount(r)) ELSE 0)
          + SumFrom(j + 1, hs, unit)

SumsFrom(j) ==
  [total |-> SumFrom(j, Hosts, FALSE),
   same |-> SumFrom(j, {ReqHost}, FALSE),
   cross |-> SumFrom(j, Hosts \ {ReqHost}, FALSE),
   resources |-> SumFrom(j, Hosts, TRUE)]

\* C7: when every handler of a visit has finished and no reset fired, the
\* total is the sum of the byte counts of the counted responses, the
\* same-origin bucket the sum over those of the requested hostname, the
\* cross-origin bucket the sum over the others, and the resource count the
\* number of counted responses; a byte count is the content-length when
\* declared, else the body size.
C7_CountersAreSums ==
  (vpc # "idle" /\ AllDone /\ acc.log = <<>>) => Counters(acc) = SumsFrom(1)

C7_Witness ==
  /\ vpc # "idle"
  /\ AllDone
  /\ acc.log = <<>>
  /\ Len(handlers) = 3
  /\ handlers[1].resp.cl = 1000 /\ handlers[1].resp.host = ReqHost
  /\ handlers[2].resp.cl = 2000 /\ handlers[2].resp.host # ReqHost
  /\ handlers[3].resp.cl = NoHeader /\ handlers[3].resp.body = 1000
  /\ Counters(acc) = [total |-> 4000, same |-> 2000, cross |-> 2000, resources |-> 3]

\* C8: when one reset fired in a visit of part_001, the final counters are
\* the sums over the responses that came after the redirect that fired it;
\* the redirect response itself and the responses before it add nothing.
C8_OnlyAfterRedirect ==
  (variant = "part_001" /\ AllDone /\ Len(acc.log) = 1)
    => Counters(acc) = SumsFrom(acc.log[1] + 1)

\* C9: once the handler of a 3xx response whose Location has another
\* hostname than the requested URL has finished, a reset has fired; and
\* every reset was fired by a redirect whose Location has another hostname.
C9_CrossHostRedirectResets ==
  vpc # "idle" =>
    /\ \A k \in 1 .. Len(handlers) :
         LET r == handlers[k].resp
         IN (r.status >= 300 /\ r.status <= 399 /\ r.loc.host # ReqHost
             /\ handlers[k].pc = "done") => acc.log # <<>>
    /\ \A j \in 1 .. Len(acc.log) : handlers[acc.log[j]].resp.loc.host # ReqHost

\* C10: in a visit of part_001 the reset fires at most once.
C10_ResetAtMostOnce == variant = "part_001" => Len(acc.log) <= 1

RECURSIVE SumSuccess(_, _, _)
\* as SumFrom(1, hs, unit), over the responses with a 2xx status only
SumSuccess(j, hs, unit) ==
  IF j > Len(handlers) THEN 0
  ELSE LET r == handlers[j].resp
       IN (IF IsCounted(r) /\ r.status <= 299 /\ r.host \in hs
           THEN (IF unit THEN 1 ELSE ByteCount(r)) ELSE 0)
          + SumSuccess(j + 1, hs, unit)

\* C11: when every handler of a visit has finished and no reset fired, the
\* counters hold the 2xx responses only: a response with any other status
\* added nothing to the total, to either bucket or to the resource count.
C11_OnlySuccessCounted ==
  (vpc # "idle" /\ AllDone /\ acc.log = <<>>) =>
    Counters(acc) = [total |-> SumSuccess(1, Hosts, FALSE),
                     same |-> SumSuccess(1, {ReqHost}, FALSE),
                     cross |-> SumSuccess(1, Hosts \ {ReqHost}, FALSE),
                     resources |-> SumSuccess(1, Hosts, TRUE)]

(* ------------------- calculateAverage on drawn inputs ------------------- *)
\* the metric that is averaged
AvgField == "loadTime"

\* what a trial holds for the metric: a whole number, a sentinel, NaN, or
\* nothing (the trial recorded only an error)
TrialKinds == {"100", "101", "200", "N/A", "DNF", "NaN", "missing"}

TrialOf(k) ==
  CASE k = "100" -> [loadTime |-> Num(100)]
    [] k = "101" -> [loadTime |-> Num(101)]
    [] k = "200" -> [loadTime |-> Num(200)]
    [] k = "N/A" -> [loadTime |-> NA]
    [] k = "DNF" -> [loadTime |-> DNF]
    [] k = "NaN" -> [loadTime |-> NaN]
    [] OTHER -> [error |-> Str("message")]

InitAverage ==
  /\ variant = "combined"
  /\ input = [kind |-> "list", targets |-> <<>>]
  /\ pc = "row"
  /\ ti = 1
  /\ page = "none"
  /\ metrics = <<>>
  /\ otherMetrics = <<>>
  /\ linkResult = [href |-> NA, found |-> FALSE]
  /\ pageDatas = <<>>
  /\ rows = <<>>
  /\ written = FALSE
  /\ browser = "launched"
  /\ exitCode = -1
  /\ openContexts = 0
  /\ trialLog = <<>>
  /\ lastTry = [outcome |-> "none", kind |-> "none", result |-> <<>>]
  /\ failures = 0
  /\ vpc = "idle"
  /\ pageUrl = Blank
  /\ handlers = <<>>
  /\ acc = NewCounters
  /\ returned = <<>>
  /\ \E ks \in SeqsUpTo(TrialKinds, MaxTrials) :
       trials = [i \in 1 .. Len(ks) |-> TrialOf(ks[i])]
  /\ average = Undefined
  /\ anchorsOnPage = <<>>
  /\ pageOrigin = 1
  /\ found = <<>>
  /\ harSites = <<>>
  /\ harPos = [site |-> 1, k |-> 1]
  /\ harTrials = <<>>

\* average = calculateAverage(trials, AvgField)
Average ==
  /\ average = Undefined
  /\ average' = calculateAverage(trials, AvgField)
  /\ UNCHANGED <<trials, anchorsOnPage, pageOrigin, found, harSites, harPos, harTrials>>
  /\ UNCHANGED <<driverVars, visitVars>>

NextAverage == Average

SpecAverage == InitAverage /\ [][NextAverage]_vars

\* the trials that hold a genuine number for the metric
Numeric == {i \in 1 .. Len(trials) : Field(trials[i], AvgField).tag = "num"}

RECURSIVE TotalOver(_)
\* the sum, in hundredths, of the metric over the trials of the set
TotalOver(is) ==
  IF is = {} THEN 0
  ELSE LET i == CHOOSE j \in is : TRUE
       IN Field(trials[i], AvgField).n + TotalOver(is \ {i})

\* C12 as stated: the average is exactly the arithmetic mean of the genuine
\* numbers, and "N/A" when there is none.
C12_ExactMean ==
  average # Undefined =>
    IF Numeric = {} THEN average = NA
    ELSE average.tag = "num" /\ average.n * Cardinality(Numeric) = TotalOver(Numeric)

\* C12: the average is "N/A" when no trial holds a genuine number for the
\* metric; otherwise it is the hundredth nearest to the arithmetic mean of
\* the genuine numbers, the divisor being their count: sentinels, NaN and
\* missing fields enter neither the sum nor the divisor.
C12_MeanToTwoDecimals ==
  average # Undefined =>
    IF Numeric = {} THEN average = NA
    ELSE LET q == Cardinality(Numeric)
             d == 2 * q * average.n - 2 * TotalOver(Numeric)
         IN average.tag = "num" /\ -q < d /\ d <= q

C12_Witness ==
  /\ trials = <<TrialOf("100"), TrialOf("200"), TrialOf("DNF")>>
  /\ average = Num(150)

(* ------------------ findHomepageLinkOnce on drawn inputs ---------------- *)
\* origins, relative to currentDomain = new URL(initialUrl).origin:
\* currentDomain itself; another origin whose text begins with currentDomain
\* (a longer host name, an explicit port); any other origin
SameOrigin == 1
PrefixOrigin == 2
OtherOrigin == 3
Origins == {SameOrigin, PrefixOrigin, OtherOrigin}

\* the href attribute of an a element: relative paths, absolute URLs (written
\* "<origin>:<path>"), text that new URL() rejects, or no attribute
Hrefs == {"/", "/index.html", "/home.html", "/about", "/a/b", "/blog/index.html",
          "same:/", "prefix:/about", "other:/about", "invalid", "none"}

\* an a element: its href and whether it holds an img
AnchorElements == [href : Hrefs, img : BOOLEAN]

\* homepageSelectors in priority order: the three exact-href selectors, the
\* selectors on the content of the element (a:has(img) stands for them), and
\* the closing a[href*="/"]
homepageSelectors == <<"a[href=/]", "a[href=/index.html]", "a[href=/home.html]",
                       "a:has(img)", "a[href*=/]">>

\* the element is among page.locator(selector)
Matches(selector, a) ==
  CASE selector = "a[href=/]" -> a.href = "/"
    [] selector = "a[href=/index.html]" -> a.href = "/index.html"
    [] selector = "a[href=/home.html]" -> a.href = "/home.html"
    [] selector = "a:has(img)" -> a.img
    [] OTHER -> a.href # "none"

\* new URL(href, page.url()).href as UrlStr(origin, pathname)
Resolve(href, po) ==
  CASE href = "same:/" -> UrlStr(SameOrigin, "/")
    [] href = "prefix:/about" -> UrlStr(PrefixOrigin, "/about")
    [] href = "other:/about" -> UrlStr(OtherOrigin, "/about")
    [] OTHER -> UrlStr(po, href)

\* absoluteHref.startsWith(currentDomain)
StartsWithCurrentDomain(absoluteHref) == absoluteHref.n \in {SameOrigin, PrefixOrigin}

\* relativePath.split('/').filter(p => p)
PathSegments(relativePath) ==
  CASE relativePath = "/" -> <<>>
    [] relativePath = "/index.html" -> <<"index.html">>
    [] relativePath = "/home.html" -> <<"home.html">>
    [] relativePath = "/about" -> <<"about">>
    [] relativePath = "/a/b" -> <<"a", "b">>
    [] OTHER -> <<"blog", "index.html">>

\* text.endsWith('/index.html') || text.endsWith('/home.html')
EndsWithIndexName(relativePath) ==
  LET segs == PathSegments(relativePath)
  IN segs # <<>> /\ segs[Len(segs)] \in {"index.html", "home.html"}

isShortRelativePath(relativePath) ==
  \/ relativePath = "/"
  \/ Len(PathSegments(relativePath)) <= 1
  \/ EndsWithIndexName(relativePath)

\* currentDomain + '/'
CurrentRoot == UrlStr(SameOrigin, "/")

\* the mutation of the test after the inner loop that never ends the search
NeverStopsSearch(st) == FALSE

\* the test after the inner loop that ends the search over the selectors
StopsSearch(st) ==
  st.linkFound /\ (st.foundHref = CurrentRoot \/ EndsWithIndexName(st.foundHref.s))

RECURSIVE ScanLocators(_, _, _, _, _)
\* the inner loop over the locators of one selector, from element i on
ScanLocators(selector, as, po, i, st) ==
  IF i > Len(as) THEN st
  ELSE LET a == as[i]
           absoluteHref == Resolve(a.href, po)
       IN IF ~Matches(selector, a) \/ a.href = "none"
          THEN ScanLocators(selector, as, po, i + 1, st)
          ELSE IF a.href = "invalid" THEN [st EXCEPT !.thrown = TRUE]
          ELSE IF ~StartsWithCurrentDomain(absoluteHref)
          THEN ScanLocators(selector, as, po, i + 1, st)
          ELSE IF a.href = "/"
          THEN [st EXCEPT !.foundHref = absoluteHref, !.linkFound = TRUE]
          ELSE IF /\ a.href \in {"/index.html", "/home.html"}
                  /\ (~st.linkFound \/ st.foundHref # CurrentRoot)
          THEN [st EXCEPT !.foundHref = absoluteHref, !.linkFound = TRUE]
          ELSE IF isShortRelativePath(absoluteHref.s) /\ ~st.linkFound
          THEN ScanLocators(selector, as, po, i + 1,
                            [st EXCEPT !.foundHref = absoluteHref, !.linkFound = TRUE])
          ELSE ScanLocators(selector, as, po, i + 1, st)

RECURSIVE ScanSelectors(_, _, _, _)
\* the outer loop over homepageSelectors, from selector s on; evaluated is
\* the number of selectors whose locators were counted
ScanSelectors(as, po, s, st) ==
  IF s > Len(homepageSelectors) THEN st
  ELSE LET count == Cardinality({i \in 1 .. Len(as) : Matches(homepageSelectors[s], as[i])})
           st1 == ScanLocators(homepageSelectors[s], as, po, 1, [st EXCEPT !.evaluated = s])
       IN IF st1.thrown THEN st1
          ELSE IF count > 0 /\ StopsSearch(st1) THEN st1
          ELSE ScanSelectors(as, po, s + 1, st1)

\* the mutation of findHomepageLinkOnce whose catch reports found = false
findHomepageLinkOnceNotFoundOnError(as, po) ==
  LET st == ScanSelectors(as, po, 1,
              [linkFound |-> FALSE, foundHref |-> NA, evaluated |-> 0, thrown |-> FALSE])
  IN [found |-> st.linkFound /\ ~st.thrown, href |-> st.foundHref,
      evaluated |-> st.evaluated]

findHomepageLinkOnce(as, po) ==
  LET st == ScanSelectors(as, po, 1,
              [linkFound |-> FALSE, foundHref |-> NA, evaluated |-> 0, thrown |-> FALSE])
  IN [found |-> st.linkFound, href |-> st.foundHref, evaluated |-> st.evaluated]

InitLink ==
  /\ variant = "combined"
  /\ input = [kind |-> "list", targets |-> <<>>]
  /\ pc = "link"
  /\ ti = 1
  /\ page = "open"
  /\ metrics = <<>>
  /\ otherMetrics = <<>>
  /\ linkResult = [href |-> NA, found |-> FALSE]
  /\ pageDatas = <<>>
  /\ rows = <<>>
  /\ written = FALSE
  /\ browser = "launched"
  /\ exitCode = -1
  /\ openContexts = 1
  /\ trialLog = <<>>
  /\ lastTry = [outcome |-> "none", kind |-> "none", result |-> <<>>]
  /\ failures = 0
  /\ vpc = "idle"
  /\ pageUrl = Blank
  /\ handlers = <<>>
  /\ acc = NewCounters
  /\ returned = <<>>
  /\ trials = <<>>
  /\ average = Undefined
  /\ anchorsOnPage \in SeqsUpTo(AnchorElements, MaxAnchors)
  /\ pageOrigin \in Origins
  /\ found = <<>>
  /\ harSites = <<>>
  /\ harPos = [site |-> 1, k |-> 1]
  /\ harTrials = <<>>

\* found = await findHomepageLinkOnce(page, initialUrl)
FindLink ==
  /\ found = <<>>
  /\ found' = findHomepageLinkOnce(anchorsOnPage, pageOrigin)
  /\ UNCHANGED <<trials, average, anchorsOnPage, pageOrigin, harSites, harPos, harTrials>>
  /\ UNCHANGED <<driverVars, visitVars>>

NextLink == FindLink

SpecLink == InitLink /\ [][NextLink]_vars

\* C13: when the page holds an a element whose href is exactly "/" and that
\* resolves to the origin of the initial URL, the result is found = true with
\* href = origin + "/", and no selector after the first was evaluated.
C13_RootAcceptedAtOnce ==
  (/\ found # <<>>
   /\ pageOrigin = SameOrigin
   /\ \E i \in 1 .. Len(anchorsOnPage) : anchorsOnPage[i].href = "/")
    => (found.found /\ found.href = CurrentRoot /\ found.evaluated = 1)

C13_Witness ==
  /\ found # <<>>
  /\ pageOrigin = SameOrigin
  /\ anchorsOnPage = <<[href |-> "/about", img |-> TRUE], [href |-> "/", img |-> TRUE]>>
  /\ found.href = CurrentRoot
  /\ found.evaluated = 1

\* C14: whenever the result is found = true, its href has the origin of the
\* initial URL.
C14_ResultIsSameOrigin ==
  (found # <<>> /\ found.found) => found.href.n = SameOrigin

\* an a element with this href attribute passed the origin test of the scan
Recorded(hrefs) ==
  \E i \in 1 .. Len(anchorsOnPage) :
    /\ anchorsOnPage[i].href \in hrefs
    /\ StartsWithCurrentDomain(Resolve(anchorsOnPage[i].href, pageOrigin))

\* C15: when no root-path anchor was recorded and an anchor with href
\* "/index.html" or "/home.html" was met, the result is that index filename;
\* when a root-path match was recorded, the result is the root-path match.
C15_IndexNameUnlessRoot ==
  found # <<>> =>
    /\ (~Recorded({"/"}) /\ Recorded({"/index.html", "/home.html"}))
         => (found.found /\ found.href.s \in {"/index.html", "/home.html"})
    /\ Recorded({"/"}) => (found.found /\ found.href.s = "/")

\* the places of the scan, in selector priority order and then document
\* order, that hold a same-origin anchor with a short path
ShortPlaces ==
  {p \in (1 .. Len(homepageSelectors)) \X (1 .. Len(anchorsOnPage)) :
     LET a == anchorsOnPage[p[2]]
     IN /\ Matches(homepageSelectors[p[1]], a)
        /\ a.href \notin {"none", "invalid"}
        /\ Resolve(a.href, pageOrigin).n = SameOrigin
        /\ isShortRelativePath(Resolve(a.href, pageOrigin).s)}

Before(p, q) == p[1] < q[1] \/ (p[1] = q[1] /\ p[2] <= q[2])

\* C16: when the page holds no anchor with href "/", "/index.html" or
\* "/home.html", the result is the first same-origin anchor with a short
\* path in selector priority order and then document order, and
\* found = false when there is none.
C16_FirstShortPath ==
  (/\ found # <<>>
   /\ \A i \in 1 .. Len(anchorsOnPage) :
        anchorsOnPage[i].href \notin {"/", "/index.html", "/home.html"})
    => IF ShortPlaces = {} THEN ~found.found /\ found.href = NA
       ELSE LET first == CHOOSE p \in ShortPlaces : \A q \in ShortPlaces : Before(p, q)
            IN /\ found.found
               /\ found.href = Resolve(anchorsOnPage[first[2]].href, pageOrigin)

\* C17: when no a element of the page resolves to the origin of the initial
\* URL, findHomepageLinkOnce returns found = false and href = "N/A".
C17_NoSameOriginAnchorNotFound ==
  (/\ found # <<>>
   /\ \A i \in 1 .. Len(anchorsOnPage) :
        \/ anchorsOnPage[i].href \in {"none", "invalid"}
        \/ Resolve(anchorsOnPage[i].href, pageOrigin).n # SameOrigin)
    => (~found.found /\ found.href = NA)

\* C18: when a run of a part variant that launched its browser over a list
\* of N targets has ended, the output holds N Site Summaries, the i-th for the i-th target, each with
\* the results of its three primary trials.
C18_OneSummaryPerTarget ==
  (variant \in PartVariants /\ input.kind = "list" /\ browser # "none" /\ pc = "exit") =>
    /\ written
    /\ Len(pageDatas) = Len(input.targets)
    /\ \A i \in 1 .. Len(pageDatas) :
         /\ pageDatas[i].siteUrl = i
         /\ Len(pageDatas[i].metrics) = NUM_TRIES_INITIAL_LOAD

\* C19: at every moment of the run at most one browsing context/page is
\* open.
C19_OneContextAtATime == openContexts <= 1

\* C20: whenever no trial is in progress, every browsing context/page that
\* was created for a trial has been closed.
C20_ContextClosedOnReturn == (page = "none" /\ pc # "exit") => openContexts = 0

\* C21: on every path by which the run ends after the browser was launched,
\* the browser has been closed.
C21_BrowserClosedAtEnd == (pc = "exit" /\ browser # "none") => browser = "closed"

\* C22: every metric field of every recorded Trial Result holds a number,
\* "N/A" or "DNF": none is missing, undefined or NaN.
C22_NumberOrSentinel ==
  lastTry.outcome # "none" =>
    \A f \in MetricNames \ {"actualPage", "otherPage"} :
      LET v == Field(lastTry.result, f) IN IsNumber(v) \/ IsSentinel(v)

\* C23: in part_001, once a reset has fired, the handler of a response that
\* was observed before the redirect and is still waiting for its body
\* finishes without changing the counters.
C23_DiscardedForGood ==
  [][\A k \in 1 .. Len(handlers) :
       (/\ variant = "part_001"
        /\ acc.log # <<>>
        /\ k < acc.log[1]
        /\ handlers[k].pc = "body"
        /\ handlers'[k].pc = "done")
         => Counters(acc') = Counters(acc)]_vars

\* C24: when getPageMetrics returns, every response handler that was started
\* has finished.
C24_NoPendingHandlerAtReturn ==
  [][(vpc = "goto" /\ vpc' = "returned") => AllDone]_vars

\* C25: when the body of a response without content-length cannot be read,
\* and the response is no redirect to another hostname, its handler finishes
\* without changing the total, either bucket or the resource counter.
C25_BodyFailureSwallowed ==
  [][\A k \in 1 .. Len(handlers) :
       (/\ handlers[k].pc = "body"
        /\ handlers'[k].pc = "done"
        /\ handlers[k].resp.body < 0
        /\ handlers[k].resp.loc.host \in {ReqHost, NoLocation.host})
         => Counters(acc') = Counters(acc)]_vars

\* C28: in every state of a visit the total is the sum of the same-origin
\* and cross-origin buckets, and no counter is negative.
C28_TotalIsSumOfBuckets ==
  /\ acc.totalTransferredBytes
       = acc.totalSameOriginTransferredBytes + acc.totalCrossOriginTransferredBytes
  /\ acc.totalTransferredBytes >= 0
  /\ acc.totalSameOriginTransferredBytes >= 0
  /\ acc.totalCrossOriginTransferredBytes >= 0
  /\ acc.totalTransferredResources >= 0

C28_Witness ==
  /\ acc.log # <<>>
  /\ Len(handlers) = 3
  /\ handlers[1].pc = "done" /\ handlers[1].resp.cl = 1000 /\ acc.log[1] > 1
  /\ acc.totalSameOriginTransferredBytes + acc.totalCrossOriginTransferredBytes > 0
  /\ C28_TotalIsSumOfBuckets

\* C29: findHomepageLinkOnce returns found = true exactly when its href is a
\* URL, and found = false exactly when its href is "N/A", also when an error
\* ended the scan part-way.
C29_ConsistentPair ==
  found # <<>> => (found.found <=> found.href # NA)

C29_Witness ==
  /\ found # <<>>
  /\ anchorsOnPage = <<[href |-> "/about", img |-> TRUE], [href |-> "invalid", img |-> TRUE]>>
  /\ pageOrigin = SameOrigin
  /\ found.found
  /\ found.href = UrlStr(SameOrigin, "/about")
  /\ found.evaluated = 4

(* -------------------- the network capture files of a run ---------------- *)
\* the name handed to getPageMetrics by the k-th trial of a target
TrialNames == <<"iter-1", "iter-2", "iter-3",
                "other-iter-1", "other-iter-2", "other-iter-3">>

\* pagePath + `/results-${name}.har`, pagePath being
\* `./results/har/${new URL(url).hostname}`
HarPath(hostname, name) == [dir |-> hostname, file |-> name]

\* a target: its hostname, and whether its third primary trial detects a
\* link; the detected link is on the hostname of the page
HarSites == [host : Hosts, link : BOOLEAN]

InitHar ==
  /\ variant \in PartVariants
  /\ input = [kind |-> "list", targets |-> <<>>]
  /\ pc = "loop"
  /\ ti = 1
  /\ page = "none"
  /\ metrics = <<>>
  /\ otherMetrics = <<>>
  /\ linkResult = [href |-> NA, found |-> FALSE]
  /\ pageDatas = <<>>
  /\ rows = <<>>
  /\ written = FALSE
  /\ browser = "launched"
  /\ exitCode = -1
  /\ openContexts = 0
  /\ trialLog = <<>>
  /\ lastTry = [outcome |-> "none", kind |-> "none", result |-> <<>>]
  /\ failures = 0
  /\ vpc = "idle"
  /\ pageUrl = Blank
  /\ handlers = <<>>
  /\ acc = NewCounters
  /\ returned = <<>>
  /\ trials = <<>>
  /\ average = Undefined
  /\ anchorsOnPage = <<>>
  /\ pageOrigin = 1
  /\ found = <<>>
  /\ harSites \in SeqsUpTo(HarSites, MaxTargets)
  /\ harPos = [site |-> 1, k |-> 1]
  /\ harTrials = <<>>

\* a primary trial: getPageMetrics(site, 'iter-' + i) records its capture
HarPrimaryTrial ==
  /\ harPos.site <= Len(harSites)
  /\ harPos.k <= NUM_TRIES_INITIAL_LOAD
  /\ harTrials' = Append(harTrials,
                         HarPath(harSites[harPos.site].host, TrialNames[harPos.k]))
  /\ harPos' = IF harPos.k < NUM_TRIES_INITIAL_LOAD \/ harSites[harPos.site].link
               THEN [harPos EXCEPT !.k = @ + 1]
               ELSE [site |-> harPos.site + 1, k |-> 1]
  /\ UNCHANGED <<trials, average, anchorsOnPage, pageOrigin, found, harSites>>
  /\ UNCHANGED <<driverVars, visitVars>>

\* a secondary trial: getPageMetrics(<other page>, 'other-iter-' + i)
HarSecondaryTrial ==
  /\ harPos.site <= Len(harSites)
  /\ harPos.k > NUM_TRIES_INITIAL_LOAD
  /\ harTrials' = Append(harTrials,
                         HarPath(harSites[harPos.site].host, TrialNames[harPos.k]))
  /\ harPos' = IF harPos.k < Len(TrialNames)
               THEN [harPos EXCEPT !.k = @ + 1]
               ELSE [site |-> harPos.site + 1, k |-> 1]
  /\ UNCHANGED <<trials, average, anchorsOnPage, pageOrigin, found, harSites>>
  /\ UNCHANGED <<driverVars, visitVars>>

NextHar ==
  \/ HarPrimaryTrial
  \/ HarSecondaryTrial

SpecHar == InitHar /\ [][NextHar]_vars

\* C27: the capture file paths of any two trials of a run differ.
C27_DistinctCapturePaths ==
  \A i, j \in 1 .. Len(harTrials) : i # j => harTrials[i] # harTrials[j]

\* C26: a run of a part variant that launched its browser over a list of
\* targets eventually writes the output.
C26_EventuallyWritesOutput ==
  (variant \in PartVariants /\ input.kind = "list" /\ browser = "launched") ~> written

====
